---- MODULE Spec2Model ----
(***************************************************************************)
(* STB Copilot: the chat page (frontend/script.js), the login page         *)
(* (frontend/login.js) and the answer pipeline they talk to.               *)
(*                                                                         *)
(* JavaScript strings that the code inspects character by character are    *)
(* sequences of one-character strings; opaque strings (tokens, messages)   *)
(* are TLA+ strings.                                                       *)
(***************************************************************************)
EXTENDS Integers, Sequences, FiniteSets, TLC

(***************************************************************************)
(* Bounds of the model.                                                    *)
(***************************************************************************)
\* longest answer text handed to formatAnswer
MaxLen == 4
\* most sources in one call of createSourcesHtml
MaxSources == 2

(***************************************************************************)
(* Characters and JavaScript string primitives.                            *)
(***************************************************************************)
LF == "\n"
Digits == {"0", "1", "2", "3", "4", "5", "6", "7", "8", "9"}
\* the character U+2022 (bullet), which the module names by its code point
BULLET == "u2022"
Bullets == {BULLET, "-", "*"}
\* what \s and String.prototype.trim take for white space, within AnswerChars
WhiteSpace == {" ", LF}
AnswerChars == {"1", ".", BULLET, "-", "*", " ", LF, "x", "<"}

RECURSIVE StringsUpTo(_, _)
\* every string over chars of length at most n
StringsUpTo(chars, n) ==
    IF n = 0 THEN {<<>>}
    ELSE LET shorter == StringsUpTo(chars, n - 1)
         IN  shorter \cup {Append(s, c) : s \in {t \in shorter : Len(t) = n - 1}, c \in chars}

RECURSIVE TrimStart(_)
TrimStart(s) ==
    IF s # <<>> /\ Head(s) \in WhiteSpace THEN TrimStart(Tail(s)) ELSE s

RECURSIVE TrimEnd(_)
TrimEnd(s) ==
    IF s # <<>> /\ s[Len(s)] \in WhiteSpace
    THEN TrimEnd(SubSeq(s, 1, Len(s) - 1)) ELSE s

\* String.prototype.trim
Trim(s) == TrimEnd(TrimStart(s))

RECURSIVE SplitFrom(_, _, _)
\* the pieces of s between occurrences of sep; cur is the piece being read
SplitFrom(s, sep, cur) ==
    IF s = <<>> THEN <<cur>>
    ELSE IF Head(s) = sep THEN <<cur>> \o SplitFrom(Tail(s), sep, <<>>)
    ELSE SplitFrom(Tail(s), sep, Append(cur, Head(s)))

\* String.prototype.split with a one-character separator
Split(s, sep) == SplitFrom(s, sep, <<>>)

RECURSIVE SkipWhile(_, _)
\* s without its longest prefix of characters in chars
SkipWhile(s, chars) ==
    IF s # <<>> /\ Head(s) \in chars THEN SkipWhile(Tail(s), chars) ELSE s

\* /^\d+\./.test(s)
TestOrdinal(s) ==
    LET rest == SkipWhile(s, Digits)
    IN  Len(rest) < Len(s) /\ rest # <<>> /\ Head(rest) = "."

\* /^[(U+2022)\-\*]/.test(s)
TestBullet(s) == s # <<>> /\ Head(s) \in Bullets

\* s.replace(/^\d+\.\s*/, '')
StripOrdinal(s) ==
    IF TestOrdinal(s) THEN SkipWhile(Tail(SkipWhile(s, Digits)), WhiteSpace) ELSE s

\* s.replace(/^[(U+2022)\-\*]\s*/, '')
StripBullet(s) ==
    IF TestBullet(s) THEN SkipWhile(Tail(s), WhiteSpace) ELSE s

\* what innerHTML gives back for one character set through textContent
EscapeChar(c) ==
    CASE c = "<" -> <<"&", "l", "t", ";">>
      [] c = ">" -> <<"&", "g", "t", ";">>
      [] c = "&" -> <<"&", "a", "m", "p", ";">>
      [] OTHER   -> <<c>>

RECURSIVE escapeHtml(_)
escapeHtml(text) ==
    IF text = <<>> THEN <<>> ELSE EscapeChar(Head(text)) \o escapeHtml(Tail(text))

(***************************************************************************)
(* formatAnswer.  The HTML it returns is kept as its element structure:    *)
(* the wrapping tag ("ol", "ul", or "none" for bare paragraphs) and the    *)
(* text of each child element (<li> under a list, <p> otherwise).          *)
(***************************************************************************)
NonBlank(line) == Trim(line) # <<>>

\* answer.split('\n').filter(line => line.trim())
AnswerLines(answer) == SelectSeq(Split(answer, LF), NonBlank)

OrderedItem(line) == Trim(StripOrdinal(line))

UnorderedItem(line) == Trim(StripBullet(line))

IsNumberedList(lines) == \E i \in 1..Len(lines) : TestOrdinal(Trim(lines[i]))

IsBulletList(lines) == \E i \in 1..Len(lines) : TestBullet(Trim(lines[i]))

\* formatAnswer testing for a bullet list before it tests for a numbered one
formatAnswerBulletFirst(answer) ==
    LET lines == AnswerLines(answer)
    IN  IF IsBulletList(lines)
        THEN [wrap |-> "ul", child |-> "li",
              items |-> [i \in 1..Len(lines) |-> escapeHtml(UnorderedItem(lines[i]))]]
        ELSE IF IsNumberedList(lines)
        THEN [wrap |-> "ol", child |-> "li",
              items |-> [i \in 1..Len(lines) |-> escapeHtml(OrderedItem(lines[i]))]]
        ELSE [wrap |-> "none", child |-> "p",
              items |-> [i \in 1..Len(lines) |-> escapeHtml(lines[i])]]

\* formatAnswer without the filter that removes the blank lines
formatAnswerKeepsBlank(answer) ==
    LET lines == Split(answer, LF)
    IN  IF IsNumberedList(lines)
        THEN [wrap |-> "ol", child |-> "li",
              items |-> [i \in 1..Len(lines) |-> escapeHtml(OrderedItem(lines[i]))]]
        ELSE IF IsBulletList(lines)
        THEN [wrap |-> "ul", child |-> "li",
              items |-> [i \in 1..Len(lines) |-> escapeHtml(UnorderedItem(lines[i]))]]
        ELSE [wrap |-> "none", child |-> "p",
              items |-> [i \in 1..Len(lines) |-> escapeHtml(lines[i])]]

formatAnswer(answer) ==
    LET lines == AnswerLines(answer)
    IN  IF IsNumberedList(lines)
        THEN [wrap |-> "ol", child |-> "li",
              items |-> [i \in 1..Len(lines) |-> escapeHtml(OrderedItem(lines[i]))]]
        ELSE IF IsBulletList(lines)
        THEN [wrap |-> "ul", child |-> "li",
              items |-> [i \in 1..Len(lines) |-> escapeHtml(UnorderedItem(lines[i]))]]
        ELSE [wrap |-> "none", child |-> "p",
              items |-> [i \in 1..Len(lines) |-> escapeHtml(lines[i])]]

(***************************************************************************)
(* createConfidenceBadge.  The badge is kept as the class and the icon it  *)
(* selects and the two values it prints.                                   *)
(***************************************************************************)
\* the check mark U+2713
CHECK_MARK == "u2713"

\* createConfidenceBadge taking every label but 'high' for 'medium'
createConfidenceBadgeNoLow(confidence, label) ==
    [colorClass |-> IF label = "high" THEN "confidence-high" ELSE "confidence-medium",
     icon       |-> IF label = "high" THEN CHECK_MARK ELSE "~",
     confidence |-> confidence,
     label      |-> label]

createConfidenceBadge(confidence, label) ==
    [colorClass |-> IF label = "high" THEN "confidence-high"
                    ELSE IF label = "medium" THEN "confidence-medium"
                    ELSE "confidence-low",
     icon       |-> IF label = "high" THEN CHECK_MARK
                    ELSE IF label = "medium" THEN "~" ELSE "!",
     confidence |-> confidence,
     label      |-> label]

(***************************************************************************)
(* createSourcesHtml.  A source is a JavaScript string, or an object whose *)
(* text, document and type properties may each be missing (undefined).     *)
(***************************************************************************)
\* the value undefined, where a string is expected
Undefined == <<"#undefined">>

\* the arrows U+25B6 (pointing right) and U+25BC (pointing down)
ARROW_RIGHT == "u25B6"
ARROW_DOWN == "u25BC"

UnknownDocument == <<"Unknown document">>
DefaultType == <<"procedure">>

StringSource(text) == [t |-> "string", text |-> text]
ObjectSource(text, document, type) ==
    [t |-> "object", text |-> text, document |-> document, type |-> type]

\* source.<property>: a string primitive has neither .document nor .type
Property(source, name) ==
    IF source.t = "string" THEN Undefined
    ELSE CASE name = "text"     -> source.text
           [] name = "document" -> source.document
           [] name = "type"     -> source.type

\* a || b on values that are strings or undefined
OrElse(a, b) == IF a = Undefined \/ a = <<>> THEN b ELSE a

\* div.textContent = v: undefined is set as null, which gives the empty text
TextContent(v) == IF v = Undefined THEN <<>> ELSE v

SourceText(source) ==
    IF source.t = "string" THEN source.text ELSE Property(source, "text")

\* docType, which the callback computes and never prints
SourceDocType(source) == OrElse(Property(source, "type"), DefaultType)

\* one source rendered at the 0-based position index, always as an unknown document
SourceChunkNoName(source, index) ==
    [label    |-> index + 1,
     document |-> UnknownDocument,
     text     |-> escapeHtml(TextContent(SourceText(source)))]

\* the callback of sources.map: one source at the 0-based position index
SourceChunk(source, index) ==
    [label    |-> index + 1,
     document |-> OrElse(Property(source, "document"), UnknownDocument),
     text     |-> escapeHtml(TextContent(SourceText(source)))]

createSourcesHtml(sources) ==
    [toggle  |-> [arrow |-> ARROW_RIGHT,
                  count |-> Len(sources),
                  noun  |-> IF Len(sources) = 1 THEN "chunk" ELSE "chunks"],
     visible |-> FALSE,
     chunks  |-> [i \in 1..Len(sources) |-> SourceChunk(sources[i], i - 1)]]

(***************************************************************************)
(* The answer pipeline behind POST /ask: Retriever, ConfidenceScorer and   *)
(* AnswerGenerator over an immutable chunk snapshot.                       *)
(***************************************************************************)
\* how many results retrieve returns at most
TopK == 3
\* the cut points of the confidence label
HighThreshold == 70
MediumThreshold == 40

Punctuation == {".", "?", ":", ",", "-", "*", BULLET}
StopWords == {<<"o", "f">>, <<"a">>}

\* lowercasing, over the letters the texts of the model use
Lower(c) == CASE c = "I" -> "i" [] c = "F" -> "f" [] c = "S" -> "s" [] OTHER -> c

\* one character normalised: lowercased, punctuation and line breaks to a space
NormalChar(c) == IF c \in Punctuation \/ c = LF THEN " " ELSE Lower(c)

Normalize(text) == [i \in 1..Len(text) |-> NormalChar(text[i])]

\* the token set of a text
Tokenize(text) ==
    LET words == Split(Normalize(text), " ")
    IN  {words[i] : i \in 1..Len(words)} \ (StopWords \cup {<<>>})

\* the count of query tokens present in the chunk
ChunkScore(queryTokens, chunk) == Cardinality(queryTokens \cap Tokenize(chunk.text))

\* the position to rank first among left: the highest score, the earliest on a tie
BestOf(left, scoreOf) ==
    CHOOSE i \in left :
        \A j \in left : scoreOf[i] > scoreOf[j] \/ (scoreOf[i] = scoreOf[j] /\ i <= j)

RECURSIVE Ranked(_, _)
Ranked(left, scoreOf) ==
    IF left = {} THEN <<>>
    ELSE LET b == BestOf(left, scoreOf)
         IN  <<b>> \o Ranked(left \ {b}, scoreOf)

\* retrieve(query, snapshot, k): the RetrievalResults, best first
Retrieve(query, snapshot, k) ==
    LET q          == Tokenize(query)
        scoreOf    == [i \in 1..Len(snapshot) |-> ChunkScore(q, snapshot[i])]
        candidates == {i \in 1..Len(snapshot) : scoreOf[i] > 0}
        order      == Ranked(candidates, scoreOf)
        n          == IF Len(order) < k THEN Len(order) ELSE k
    IN  [r \in 1..n |-> [chunk |-> snapshot[order[r]], score |-> scoreOf[order[r]]]]

LabelOf(confidence) ==
    IF confidence >= HighThreshold THEN "high"
    ELSE IF confidence >= MediumThreshold THEN "medium" ELSE "low"

\* score(retrieval_results, query): the percentage of distinct query tokens the top
\* result matches, cut by a quarter when the second result scores as much
ConfidenceOf(results, query) ==
    IF results = <<>> THEN 0
    ELSE LET matched == (results[1].score * 100) \div Cardinality(Tokenize(query))
             clear   == Len(results) = 1 \/ results[1].score > results[2].score
         IN  IF clear THEN matched ELSE (matched * 3) \div 4

NoInformationText == <<"N", "o", " ", "i", "n", "f", "o", ".">>
LowReliabilityCaveat == <<"L", "o", "w", ":">>

\* generate(query, retrieval_results, confidence, label)
Generate(query, results, confidence, label) ==
    IF results = <<>>
    THEN [answer |-> NoInformationText, confidence |-> 0,
          confidence_label |-> "low", sources |-> <<>>]
    ELSE [answer |-> IF confidence < MediumThreshold
                     THEN LowReliabilityCaveat \o <<LF>> \o results[1].chunk.text
                     ELSE results[1].chunk.text,
          confidence |-> confidence,
          confidence_label |-> label,
          sources |-> [i \in 1..Len(results) |->
                          ObjectSource(results[i].chunk.text,
                                       results[i].chunk.document_title,
                                       results[i].chunk.type)]]

\* ask(question) over a snapshot
Ask(question, snapshot) ==
    LET results    == Retrieve(question, snapshot, TopK)
        confidence == ConfidenceOf(results, question)
    IN  Generate(question, results, confidence, LabelOf(confidence))

\* the chunks of the documents the server holds, as ingestion number version made them
ChunksOf(version) ==
    << [text |-> <<"1", ".", " ", "i", "d", LF, "2", ".", " ", "f", "e", "e">>,
        document_title |-> <<"Account opening">>, type |-> <<"procedure">>,
        version |-> version],
       [text |-> <<"-", " ", "i", "d">>,
        document_title |-> <<"Cards">>, type |-> <<"requirement">>,
        version |-> version] >>

(***************************************************************************)
(* State.                                                                  *)
(***************************************************************************)
VARIABLES
    \* the browser: storage, the document shown, a navigation that has been
    \* started by assigning window.location.href, whether DOMContentLoaded ran
    localStorage, page, location, loaded,
    \* script.js and the elements of index.html it holds
    sessionToken, currentUser, questionInput, sendButton, loadingIndicator,
    chatMessages, asks,
    \* login.js and the elements of login.html it holds
    emailInput, passwordInput, loginButton, errorMessage, logins, redirectTimer,
    \* the server: the session tokens it accepts; the chunk snapshots it holds,
    \* the published one, the one being built, and the queries it is answering
    sessions, snapshots, published, building, queries,
    \* one call of a rendering function: its arguments and what it returned
    call, ret,
    \* history: the handler that ran last
    lastEvent

browser == <<localStorage, page, location, loaded>>
indexDoc == <<sessionToken, currentUser, questionInput, sendButton, loadingIndicator,
              chatMessages, asks>>
loginDoc == <<emailInput, passwordInput, loginButton, errorMessage, logins, redirectTimer>>
pipeline == <<snapshots, published, building, queries>>
rendering == <<call, ret>>
vars == <<browser, indexDoc, loginDoc, sessions, pipeline, rendering, lastEvent>>

\* the value null, where an opaque string is expected
Null == "#null"

INDEX == "index.html"
LOGIN == "login.html"

TOKEN_KEY == "stb_session_token"
NAME_KEY == "stb_user_name"
ROLE_KEY == "stb_user_role"
StorageKeys == {TOKEN_KEY, NAME_KEY, ROLE_KEY}

\* localStorage.clear()
ClearedStorage == [k \in StorageKeys |-> Null]

\* !v for a value that is a string or null
Falsy(v) == v = Null \/ v = ""

(***************************************************************************)
(* index.html with script.js: the chat page.                               *)
(***************************************************************************)
\* most questions sent from one load of the chat page
MaxQuestions == 2
\* most clicks on the source toggle of one message
MaxClicks == 2

\* what the user may type into questionInput
Questions ==
    { <<>>,
      <<" ">>,
      <<"I", "d", "?">>,
      <<" ", "f", "e", "e">>,
      <<"s", "u", "n">> }

GenericError == "Sorry, I encountered an error. Please make sure the backend server is running."

NoUser == [none |-> TRUE]

\* the Authorization header of the template literal `Bearer ${sessionToken}`
BearerOf(token) == [scheme |-> "Bearer", credentials |-> IF token = Null THEN "null" ELSE token]

\* the responses of the network, as fetch() and response.json() see them
Request == [st |-> "request"]
Failed == [st |-> "failed"]
Response(status, body) ==
    [st |-> "response", status |-> status, ok |-> status \in 200..299, body |-> body]
JsonBody(data) == [parsable |-> TRUE, data |-> data]
GarbledBody == [parsable |-> FALSE]

addUserMessage(chat, text) == Append(chat, [kind |-> "user", text |-> escapeHtml(text)])

addErrorMessage(chat, message) ==
    Append(chat, [kind |-> "error", text |-> escapeHtml(<<message>>)])

\* the value undefined, where an array of sources is expected
NoSources == << [t |-> "undefined"] >>

\* sources && sources.length > 0
HasSources(sources) == sources # NoSources /\ Len(sources) > 0

\* addAssistantMessage attaching the click listener whenever sources is an array
addAssistantMessageAnyArray(chat, answer, confidence, confidenceLabel, sources) ==
    Append(chat,
           [kind       |-> "assistant",
            text       |-> formatAnswer(answer),
            badge      |-> createConfidenceBadge(confidence, confidenceLabel),
            disclosure |-> IF HasSources(sources)
                           THEN <<createSourcesHtml(sources)>> ELSE <<>>,
            listener   |-> sources # NoSources,
            clicks     |-> 0])

\* the message element it appends: the formatted answer, the badge, the source
\* disclosure (none, or one), whether the toggle got its click listener, and as
\* history the clicks the toggle has taken
addAssistantMessage(chat, answer, confidence, confidenceLabel, sources) ==
    Append(chat,
           [kind       |-> "assistant",
            text       |-> formatAnswer(answer),
            badge      |-> createConfidenceBadge(confidence, confidenceLabel),
            disclosure |-> IF HasSources(sources)
                           THEN <<createSourcesHtml(sources)>> ELSE <<>>,
            listener   |-> HasSources(sources),
            clicks     |-> 0])

\* the listener of a toggle that shows the content and never hides it again
ToggleShowOnly(message) ==
    [message EXCEPT !.disclosure[1].visible = TRUE,
                    !.disclosure[1].toggle.arrow = ARROW_DOWN,
                    !.clicks = @ + 1]

\* the click listener of the source toggle, on the message it belongs to
Toggle(message) ==
    LET visible == ~message.disclosure[1].visible
    IN  [message EXCEPT !.disclosure[1].visible = visible,
                        !.disclosure[1].toggle.arrow =
                            IF visible THEN ARROW_DOWN ELSE ARROW_RIGHT,
                        !.clicks = @ + 1]

\* the elements and globals of a chat page that has just been parsed
FreshQuestionInput == [value |-> <<>>, disabled |-> FALSE]
FreshSendButton == [disabled |-> FALSE]
FreshLoadingIndicator == [visible |-> FALSE]

IndexDocFresh ==
    /\ sessionToken = Null
    /\ currentUser = NoUser
    /\ questionInput = FreshQuestionInput
    /\ sendButton = FreshSendButton
    /\ loadingIndicator = FreshLoadingIndicator
    /\ chatMessages = <<>>
    /\ asks = <<>>

OnIndex == page = INDEX /\ loaded

\* DOMContentLoaded on the chat page: checkAuthentication, then the submit
\* handler is registered whatever checkAuthentication did
IndexContentLoaded ==
    /\ page = INDEX /\ ~loaded
    /\ loaded' = TRUE
    /\ sessionToken' = localStorage[TOKEN_KEY]
    /\ IF Falsy(localStorage[TOKEN_KEY])
       THEN /\ location' = LOGIN
            /\ UNCHANGED currentUser
       ELSE /\ currentUser' = [name |-> localStorage[NAME_KEY],
                               role |-> localStorage[ROLE_KEY]]
            /\ UNCHANGED location
    /\ lastEvent' = "checkAuthentication"
    /\ UNCHANGED <<localStorage, page, questionInput, sendButton, loadingIndicator,
                   chatMessages, asks, loginDoc, sessions, pipeline, rendering>>

\* the submit event can be raised from the field or from the button
CanSubmit == OnIndex /\ (~questionInput.disabled \/ ~sendButton.disabled)

\* handleSubmit without its check of the trimmed question
HandleSubmitUnchecked(typed) ==
    /\ CanSubmit
    /\ Len(asks) < MaxQuestions
    /\ chatMessages' = addUserMessage(chatMessages, Trim(typed))
    /\ questionInput' = [value |-> <<>>, disabled |-> TRUE]
    /\ sendButton' = [disabled |-> TRUE]
    /\ loadingIndicator' = [visible |-> TRUE]
    /\ asks' = Append(asks, [pc |-> "fetch",
                             question |-> Trim(typed),
                             authorization |-> BearerOf(sessionToken),
                             wire |-> Request,
                             outcome |-> "none"])
    /\ lastEvent' = "handleSubmit"
    /\ UNCHANGED <<browser, sessionToken, currentUser, loginDoc, sessions, pipeline,
                   rendering>>

\* handleSubmit without its call of setInputEnabled(false)
HandleSubmitLeavesEnabled(typed) ==
    /\ CanSubmit
    /\ LET question == Trim(typed)
       IN  IF question = <<>>
           THEN /\ questionInput' = [questionInput EXCEPT !.value = typed]
                /\ lastEvent' = "handleSubmit:blank"
                /\ UNCHANGED <<browser, sessionToken, currentUser, sendButton,
                               loadingIndicator, chatMessages, asks, loginDoc, sessions,
                               pipeline, rendering>>
           ELSE /\ Len(asks) < MaxQuestions
                /\ chatMessages' = addUserMessage(chatMessages, question)
                /\ questionInput' = [questionInput EXCEPT !.value = <<>>]
                /\ loadingIndicator' = [visible |-> TRUE]
                /\ asks' = Append(asks, [pc |-> "fetch",
                                         question |-> question,
                                         authorization |-> BearerOf(sessionToken),
                                         wire |-> Request,
                                         outcome |-> "none"])
                /\ lastEvent' = "handleSubmit"
                /\ UNCHANGED <<browser, sessionToken, currentUser, sendButton, loginDoc,
                               sessions, pipeline, rendering>>

\* the user submits the form with typed in the question field: handleSubmit,
\* with sendQuestion up to its await of fetch
HandleSubmit(typed) ==
    /\ CanSubmit
    /\ LET question == Trim(typed)
       IN  IF question = <<>>
           THEN /\ questionInput' = [questionInput EXCEPT !.value = typed]
                /\ lastEvent' = "handleSubmit:blank"
                /\ UNCHANGED <<browser, sessionToken, currentUser, sendButton,
                               loadingIndicator, chatMessages, asks, loginDoc, sessions,
                               pipeline, rendering>>
           ELSE /\ Len(asks) < MaxQuestions
                /\ chatMessages' = addUserMessage(chatMessages, question)
                /\ questionInput' = [value |-> <<>>, disabled |-> TRUE]
                /\ sendButton' = [disabled |-> TRUE]
                /\ loadingIndicator' = [visible |-> TRUE]
                /\ asks' = Append(asks, [pc |-> "fetch",
                                         question |-> question,
                                         authorization |-> BearerOf(sessionToken),
                                         wire |-> Request,
                                         outcome |-> "none"])
                /\ lastEvent' = "handleSubmit"
                /\ UNCHANGED <<browser, sessionToken, currentUser, loginDoc, sessions,
                               pipeline, rendering>>

\* a catch block that sends the request again instead of reporting the failure
SendQuestionCatchRetries(i) ==
    /\ asks' = [asks EXCEPT ![i].pc = "fetch", ![i].wire = Request]
    /\ UNCHANGED <<browser, sessionToken, currentUser, questionInput, sendButton,
                   loadingIndicator, chatMessages>>

\* the catch block of sendQuestion, for the call at position i
SendQuestionCatch(i) ==
    /\ loadingIndicator' = [visible |-> FALSE]
    /\ chatMessages' = addErrorMessage(chatMessages, GenericError)
    /\ questionInput' = [questionInput EXCEPT !.disabled = FALSE]
    /\ sendButton' = [disabled |-> FALSE]
    /\ asks' = [asks EXCEPT ![i].pc = "done", ![i].outcome = "error"]
    /\ UNCHANGED <<browser, sessionToken, currentUser>>

\* sendQuestion answering 401 as it answers any other failure
SendQuestionFetchedNo401(i) ==
    /\ OnIndex
    /\ asks[i].pc = "fetch" /\ asks[i].wire.st \in {"response", "failed"}
    /\ IF asks[i].wire.st = "response" /\ asks[i].wire.ok
       THEN /\ asks' = [asks EXCEPT ![i].pc = "json"]
            /\ UNCHANGED <<browser, sessionToken, currentUser, questionInput, sendButton,
                           loadingIndicator, chatMessages>>
       ELSE SendQuestionCatch(i)
    /\ lastEvent' = "sendQuestion:fetched"
    /\ UNCHANGED <<loginDoc, sessions, pipeline, rendering>>

\* sendQuestion ending the session on every response that is not OK
SendQuestionFetchedLogsOut(i) ==
    /\ OnIndex
    /\ asks[i].pc = "fetch" /\ asks[i].wire.st \in {"response", "failed"}
    /\ IF asks[i].wire.st = "failed"
       THEN SendQuestionCatch(i)
       ELSE IF ~asks[i].wire.ok
       THEN /\ localStorage' = ClearedStorage
            /\ location' = LOGIN
            /\ asks' = [asks EXCEPT ![i].pc = "done", ![i].outcome = "redirect"]
            /\ UNCHANGED <<page, loaded, sessionToken, currentUser, questionInput,
                           sendButton, loadingIndicator, chatMessages>>
       ELSE /\ asks' = [asks EXCEPT ![i].pc = "json"]
            /\ UNCHANGED <<browser, sessionToken, currentUser, questionInput, sendButton,
                           loadingIndicator, chatMessages>>
    /\ lastEvent' = "sendQuestion:fetched"
    /\ UNCHANGED <<loginDoc, sessions, pipeline, rendering>>

\* sendQuestion redirecting on 401 without clearing the stored session
SendQuestionFetchedKeepsSession(i) ==
    /\ OnIndex
    /\ asks[i].pc = "fetch" /\ asks[i].wire.st \in {"response", "failed"}
    /\ IF asks[i].wire.st = "failed"
       THEN SendQuestionCatch(i)
       ELSE IF asks[i].wire.status = 401
       THEN /\ location' = LOGIN
            /\ asks' = [asks EXCEPT ![i].pc = "done", ![i].outcome = "redirect"]
            /\ UNCHANGED <<localStorage, page, loaded, sessionToken, currentUser,
                           questionInput, sendButton, loadingIndicator, chatMessages>>
       ELSE IF ~asks[i].wire.ok
       THEN SendQuestionCatch(i)
       ELSE /\ asks' = [asks EXCEPT ![i].pc = "json"]
            /\ UNCHANGED <<browser, sessionToken, currentUser, questionInput, sendButton,
                           loadingIndicator, chatMessages>>
    /\ lastEvent' = "sendQuestion:fetched"
    /\ UNCHANGED <<loginDoc, sessions, pipeline, rendering>>

\* sendQuestion from the settling of fetch to its await of response.json()
SendQuestionFetched(i) ==
    /\ OnIndex
    /\ asks[i].pc = "fetch" /\ asks[i].wire.st \in {"response", "failed"}
    /\ IF asks[i].wire.st = "failed"
       THEN SendQuestionCatch(i)
       ELSE IF asks[i].wire.status = 401
       THEN /\ localStorage' = ClearedStorage
            /\ location' = LOGIN
            /\ asks' = [asks EXCEPT ![i].pc = "done", ![i].outcome = "redirect"]
            /\ UNCHANGED <<page, loaded, sessionToken, currentUser, questionInput,
                           sendButton, loadingIndicator, chatMessages>>
       ELSE IF ~asks[i].wire.ok
       THEN SendQuestionCatch(i)
       ELSE /\ asks' = [asks EXCEPT ![i].pc = "json"]
            /\ UNCHANGED <<browser, sessionToken, currentUser, questionInput, sendButton,
                           loadingIndicator, chatMessages>>
    /\ lastEvent' = "sendQuestion:fetched"
    /\ UNCHANGED <<loginDoc, sessions, pipeline, rendering>>

\* sendQuestion showing an answer that names no source as an error
SendQuestionParsedNeedsSources(i) ==
    /\ OnIndex
    /\ asks[i].pc = "json"
    /\ IF asks[i].wire.body.parsable /\ HasSources(asks[i].wire.body.data.sources)
       THEN LET data == asks[i].wire.body.data
            IN  /\ loadingIndicator' = [visible |-> FALSE]
                /\ chatMessages' = addAssistantMessage(chatMessages, data.answer,
                                       data.confidence, data.confidence_label, data.sources)
                /\ questionInput' = [questionInput EXCEPT !.disabled = FALSE]
                /\ sendButton' = [disabled |-> FALSE]
                /\ asks' = [asks EXCEPT ![i].pc = "done", ![i].outcome = "answer"]
                /\ UNCHANGED <<browser, sessionToken, currentUser>>
       ELSE SendQuestionCatch(i)
    /\ lastEvent' = "sendQuestion:parsed"
    /\ UNCHANGED <<loginDoc, sessions, pipeline, rendering>>

\* sendQuestion from the settling of response.json() to its end
SendQuestionParsed(i) ==
    /\ OnIndex
    /\ asks[i].pc = "json"
    /\ IF asks[i].wire.body.parsable
       THEN LET data == asks[i].wire.body.data
            IN  /\ loadingIndicator' = [visible |-> FALSE]
                /\ chatMessages' = addAssistantMessage(chatMessages, data.answer,
                                       data.confidence, data.confidence_label, data.sources)
                /\ questionInput' = [questionInput EXCEPT !.disabled = FALSE]
                /\ sendButton' = [disabled |-> FALSE]
                /\ asks' = [asks EXCEPT ![i].pc = "done", ![i].outcome = "answer"]
                /\ UNCHANGED <<browser, sessionToken, currentUser>>
       ELSE SendQuestionCatch(i)
    /\ lastEvent' = "sendQuestion:parsed"
    /\ UNCHANGED <<loginDoc, sessions, pipeline, rendering>>

\* a click on the source toggle of the message at position m
ToggleClick(m) ==
    /\ OnIndex
    /\ chatMessages[m].kind = "assistant"
    /\ chatMessages[m].listener
    /\ chatMessages[m].clicks < MaxClicks
    /\ chatMessages' = [chatMessages EXCEPT ![m] = Toggle(chatMessages[m])]
    /\ lastEvent' = "toggle"
    /\ UNCHANGED <<browser, sessionToken, currentUser, questionInput, sendButton,
                   loadingIndicator, asks, loginDoc, sessions, pipeline, rendering>>

(***************************************************************************)
(* login.html with login.js: the login page.                               *)
(***************************************************************************)
\* most login requests sent from one load of the login page
MaxLogins == 2

\* what the user may type into the two fields
Emails == { <<>>, <<" ">>, <<" ", "u">> }
Passwords == { <<>>, <<"p">>, <<" ">> }

FillAllFields == "Veuillez remplir tous les champs"
BadCredentials == "Email ou mot de passe incorrect"
ConnectionError == "Erreur de connexion. Veuillez reessayer."
LoginSucceeded == "Connexion reussie! Redirection..."

showError(message) == [text |-> message, visible |-> TRUE, style |-> "error"]
showSuccess(message) == [text |-> message, visible |-> TRUE, style |-> "success"]
hideError(element) == [element EXCEPT !.visible = FALSE]

\* the button as setFormEnabled leaves it
ButtonWhen(enabled) ==
    [disabled |-> ~enabled, text |-> IF enabled THEN "Se connecter" ELSE "Connexion..."]

FreshField == [value |-> <<>>, disabled |-> FALSE]
FreshErrorMessage == [text |-> "", visible |-> FALSE, style |-> "none"]

LoginDocFresh ==
    /\ emailInput = FreshField
    /\ passwordInput = FreshField
    /\ loginButton = ButtonWhen(TRUE)
    /\ errorMessage = FreshErrorMessage
    /\ logins = <<>>
    /\ redirectTimer = FALSE

OnLogin == page = LOGIN /\ loaded

\* DOMContentLoaded on the login page: checkExistingSession, then the submit
\* handler is registered
LoginContentLoaded ==
    /\ page = LOGIN /\ ~loaded
    /\ loaded' = TRUE
    /\ location' = IF Falsy(localStorage[TOKEN_KEY]) THEN location ELSE INDEX
    /\ lastEvent' = "checkExistingSession"
    /\ UNCHANGED <<localStorage, page, indexDoc, loginDoc, sessions, pipeline, rendering>>

\* the submit event can be raised from a field or from the button
CanLogin ==
    OnLogin /\ (~emailInput.disabled \/ ~passwordInput.disabled \/ ~loginButton.disabled)

\* handleLogin without its check of the two fields
HandleLoginUnchecked(typedEmail, typedPassword) ==
    /\ CanLogin
    /\ Len(logins) < MaxLogins
    /\ emailInput' = [value |-> typedEmail, disabled |-> TRUE]
    /\ passwordInput' = [value |-> typedPassword, disabled |-> TRUE]
    /\ loginButton' = ButtonWhen(FALSE)
    /\ errorMessage' = hideError(errorMessage)
    /\ logins' = Append(logins, [pc |-> "fetch",
                                 email |-> Trim(typedEmail),
                                 password |-> typedPassword,
                                 wire |-> Request,
                                 outcome |-> "none"])
    /\ lastEvent' = "handleLogin"
    /\ UNCHANGED <<browser, indexDoc, redirectTimer, sessions, pipeline, rendering>>

\* handleLogin without its call of setFormEnabled(false)
HandleLoginLeavesEnabled(typedEmail, typedPassword) ==
    /\ CanLogin
    /\ LET email    == Trim(typedEmail)
           password == typedPassword
       IN  IF email = <<>> \/ password = <<>>
           THEN /\ errorMessage' = showError(FillAllFields)
                /\ emailInput' = [emailInput EXCEPT !.value = typedEmail]
                /\ passwordInput' = [passwordInput EXCEPT !.value = typedPassword]
                /\ lastEvent' = "handleLogin:incomplete"
                /\ UNCHANGED <<loginButton, logins>>
           ELSE /\ Len(logins) < MaxLogins
                /\ emailInput' = [emailInput EXCEPT !.value = typedEmail]
                /\ passwordInput' = [passwordInput EXCEPT !.value = typedPassword]
                /\ errorMessage' = hideError(errorMessage)
                /\ logins' = Append(logins, [pc |-> "fetch",
                                             email |-> email,
                                             password |-> password,
                                             wire |-> Request,
                                             outcome |-> "none"])
                /\ lastEvent' = "handleLogin"
                /\ UNCHANGED loginButton
    /\ UNCHANGED <<browser, indexDoc, redirectTimer, sessions, pipeline, rendering>>

\* the user submits the form with typedEmail and typedPassword in the two
\* fields: handleLogin up to its await of fetch
HandleLogin(typedEmail, typedPassword) ==
    /\ CanLogin
    /\ LET email    == Trim(typedEmail)
           password == typedPassword
       IN  IF email = <<>> \/ password = <<>>
           THEN /\ errorMessage' = showError(FillAllFields)
                /\ emailInput' = [emailInput EXCEPT !.value = typedEmail]
                /\ passwordInput' = [passwordInput EXCEPT !.value = typedPassword]
                /\ lastEvent' = "handleLogin:incomplete"
                /\ UNCHANGED <<loginButton, logins>>
           ELSE /\ Len(logins) < MaxLogins
                /\ emailInput' = [value |-> typedEmail, disabled |-> TRUE]
                /\ passwordInput' = [value |-> typedPassword, disabled |-> TRUE]
                /\ loginButton' = ButtonWhen(FALSE)
                /\ errorMessage' = hideError(errorMessage)
                /\ logins' = Append(logins, [pc |-> "fetch",
                                             email |-> email,
                                             password |-> password,
                                             wire |-> Request,
                                             outcome |-> "none"])
                /\ lastEvent' = "handleLogin"
    /\ UNCHANGED <<browser, indexDoc, redirectTimer, sessions, pipeline, rendering>>

\* the catch block of handleLogin, for the call at position i
HandleLoginCatch(i) ==
    /\ errorMessage' = showError(ConnectionError)
    /\ emailInput' = [emailInput EXCEPT !.disabled = FALSE]
    /\ passwordInput' = [passwordInput EXCEPT !.disabled = FALSE]
    /\ loginButton' = ButtonWhen(TRUE)
    /\ logins' = [logins EXCEPT ![i].pc = "done", ![i].outcome = "error"]
    /\ UNCHANGED <<browser, redirectTimer>>

\* handleLogin from the settling of fetch to its await of response.json()
HandleLoginFetched(i) ==
    /\ OnLogin
    /\ logins[i].pc = "fetch" /\ logins[i].wire.st \in {"response", "failed"}
    /\ IF logins[i].wire.st = "failed"
       THEN HandleLoginCatch(i)
       ELSE /\ logins' = [logins EXCEPT ![i].pc = "json"]
            /\ UNCHANGED <<browser, emailInput, passwordInput, loginButton, errorMessage,
                           redirectTimer>>
    /\ lastEvent' = "handleLogin:fetched"
    /\ UNCHANGED <<indexDoc, sessions, pipeline, rendering>>

\* the three items handleLogin stores
StoredSession(data) ==
    [k \in StorageKeys |->
        CASE k = TOKEN_KEY -> data.session_token
          [] k = NAME_KEY  -> data.user.name
          [] k = ROLE_KEY  -> data.user.role]

\* handleLogin storing the token before it looks at the outcome
HandleLoginParsedStoresFirst(i) ==
    /\ OnLogin
    /\ logins[i].pc = "json"
    /\ IF ~logins[i].wire.body.parsable
       THEN HandleLoginCatch(i)
       ELSE LET data == logins[i].wire.body.data
            IN  IF logins[i].wire.ok /\ data.success
                THEN /\ localStorage' = StoredSession(data)
                     /\ errorMessage' = showSuccess(LoginSucceeded)
                     /\ redirectTimer' = TRUE
                     /\ logins' = [logins EXCEPT ![i].pc = "done", ![i].outcome = "success"]
                     /\ UNCHANGED <<page, location, loaded, emailInput, passwordInput,
                                    loginButton>>
                ELSE /\ errorMessage' = showError(OrElse(data.message, <<BadCredentials>>)[1])
                     /\ emailInput' = [emailInput EXCEPT !.disabled = FALSE]
                     /\ passwordInput' = [passwordInput EXCEPT !.disabled = FALSE]
                     /\ loginButton' = ButtonWhen(TRUE)
                     /\ logins' = [logins EXCEPT ![i].pc = "done", ![i].outcome = "failure"]
                     /\ localStorage' = [localStorage EXCEPT ![TOKEN_KEY] = "undefined"]
                     /\ UNCHANGED <<page, location, loaded, redirectTimer>>
    /\ lastEvent' = "handleLogin:parsed"
    /\ UNCHANGED <<indexDoc, sessions, pipeline, rendering>>

\* handleLogin from the settling of response.json() to its end
HandleLoginParsed(i) ==
    /\ OnLogin
    /\ logins[i].pc = "json"
    /\ IF ~logins[i].wire.body.parsable
       THEN HandleLoginCatch(i)
       ELSE LET data == logins[i].wire.body.data
            IN  IF logins[i].wire.ok /\ data.success
                THEN /\ localStorage' = StoredSession(data)
                     /\ errorMessage' = showSuccess(LoginSucceeded)
                     /\ redirectTimer' = TRUE
                     /\ logins' = [logins EXCEPT ![i].pc = "done", ![i].outcome = "success"]
                     /\ UNCHANGED <<page, location, loaded, emailInput, passwordInput,
                                    loginButton>>
                ELSE /\ errorMessage' = showError(OrElse(data.message, <<BadCredentials>>)[1])
                     /\ emailInput' = [emailInput EXCEPT !.disabled = FALSE]
                     /\ passwordInput' = [passwordInput EXCEPT !.disabled = FALSE]
                     /\ loginButton' = ButtonWhen(TRUE)
                     /\ logins' = [logins EXCEPT ![i].pc = "done", ![i].outcome = "failure"]
                     /\ UNCHANGED <<browser, redirectTimer>>
    /\ lastEvent' = "handleLogin:parsed"
    /\ UNCHANGED <<indexDoc, sessions, pipeline, rendering>>

\* the callback of setTimeout, a second after a login succeeded
RedirectTimerFires ==
    /\ OnLogin /\ redirectTimer
    /\ redirectTimer' = FALSE
    /\ location' = INDEX
    /\ lastEvent' = "redirectTimer"
    /\ UNCHANGED <<localStorage, page, loaded, indexDoc, emailInput, passwordInput,
                   loginButton, errorMessage, logins, sessions, pipeline, rendering>>

(***************************************************************************)
(* The browser loading a document, and the network and the server behind   *)
(* fetch().                                                                *)
(***************************************************************************)
\* a navigation started by assigning window.location.href commits: until then
\* the old document stays live, now it is discarded with its pending callbacks
Navigate ==
    /\ location # Null
    /\ page' = location
    /\ location' = Null
    /\ loaded' = FALSE
    /\ sessionToken' = Null
    /\ currentUser' = NoUser
    /\ questionInput' = FreshQuestionInput
    /\ sendButton' = FreshSendButton
    /\ loadingIndicator' = FreshLoadingIndicator
    /\ chatMessages' = <<>>
    /\ asks' = <<>>
    /\ emailInput' = FreshField
    /\ passwordInput' = FreshField
    /\ loginButton' = ButtonWhen(TRUE)
    /\ errorMessage' = FreshErrorMessage
    /\ logins' = <<>>
    /\ redirectTimer' = FALSE
    /\ lastEvent' = "navigate"
    /\ UNCHANGED <<localStorage, sessions, pipeline, rendering>>

Tokens == {"t1"}
Accounts == { << <<"u">>, <<"p">> >> }
AccountUser == [name |-> "Amal", role |-> "agent"]

Unauthorized == JsonBody([detail |-> "unauthorized"])
ServerFailure == JsonBody([detail |-> "failure"])

\* POST /ask: 401 at the boundary for a token that is not valid, else the Answer
\* of the pipeline over the published snapshot
ServeAsk(i) ==
    /\ OnIndex
    /\ asks[i].pc = "fetch" /\ asks[i].wire = Request
    /\ asks' = [asks EXCEPT ![i].wire =
                   IF asks[i].authorization.credentials \notin sessions
                   THEN Response(401, Unauthorized)
                   ELSE IF Trim(asks[i].question) = <<>>
                   THEN Response(400, ServerFailure)
                   ELSE Response(200, JsonBody(Ask(asks[i].question,
                                                   snapshots[published])))]
    /\ lastEvent' = "server"
    /\ UNCHANGED <<browser, sessionToken, currentUser, questionInput, sendButton,
                   loadingIndicator, chatMessages, loginDoc, sessions, pipeline, rendering>>

\* POST /ask ending in an InternalComputeFault: a generic server failure
ServeAskFault(i) ==
    /\ OnIndex
    /\ asks[i].pc = "fetch" /\ asks[i].wire = Request
    /\ asks[i].authorization.credentials \in sessions
    /\ asks' = [asks EXCEPT ![i].wire = Response(500, ServerFailure)]
    /\ lastEvent' = "server"
    /\ UNCHANGED <<browser, sessionToken, currentUser, questionInput, sendButton,
                   loadingIndicator, chatMessages, loginDoc, sessions, pipeline, rendering>>

\* the network fails the request (fetch rejects), or hands back a body that is
\* no JSON (response.json() rejects)
BreakAsk(i, wire) ==
    /\ OnIndex
    /\ asks[i].pc = "fetch" /\ asks[i].wire = Request
    /\ asks' = [asks EXCEPT ![i].wire = wire]
    /\ lastEvent' = "network"
    /\ UNCHANGED <<browser, sessionToken, currentUser, questionInput, sendButton,
                   loadingIndicator, chatMessages, loginDoc, sessions, pipeline, rendering>>

\* POST /login: a session token for the credentials of an account, else a failure
ServeLogin(i) ==
    /\ OnLogin
    /\ logins[i].pc = "fetch" /\ logins[i].wire = Request
    /\ IF <<logins[i].email, logins[i].password>> \in Accounts
       THEN \E token \in Tokens :
               /\ sessions' = sessions \cup {token}
               /\ logins' = [logins EXCEPT ![i].wire =
                                Response(200, JsonBody([success |-> TRUE,
                                                        session_token |-> token,
                                                        user |-> AccountUser]))]
       ELSE \E message \in {Undefined, <<"Identifiants invalides">>} :
               /\ logins' = [logins EXCEPT ![i].wire =
                                Response(401, JsonBody([success |-> FALSE,
                                                        message |-> message]))]
               /\ UNCHANGED sessions
    /\ lastEvent' = "server"
    /\ UNCHANGED <<browser, indexDoc, emailInput, passwordInput, loginButton, errorMessage,
                   redirectTimer, pipeline, rendering>>

BreakLogin(i, wire) ==
    /\ OnLogin
    /\ logins[i].pc = "fetch" /\ logins[i].wire = Request
    /\ logins' = [logins EXCEPT ![i].wire = wire]
    /\ lastEvent' = "network"
    /\ UNCHANGED <<browser, indexDoc, emailInput, passwordInput, loginButton, errorMessage,
                   redirectTimer, sessions, pipeline, rendering>>

\* a session token stops being valid
Expire(token) ==
    /\ token \in sessions
    /\ sessions' = sessions \ {token}
    /\ lastEvent' = "expire"
    /\ UNCHANGED <<browser, indexDoc, loginDoc, pipeline, rendering>>

Breakages == {Failed, Response(200, GarbledBody), Response(502, GarbledBody)}

(***************************************************************************)
(* Re-ingestion beside running queries.  snapshots is the memory holding   *)
(* every snapshot built so far, published the reference queries take.  A   *)
(* query takes the reference once and then reads the chunks one by one.    *)
(***************************************************************************)
\* most snapshots ever built, the first one included
MaxSnapshots == 3
\* most ask calls running at once
MaxQueries == 2

QueryQuestions == { <<"i", "d", " ", "s", "u", "n">>, <<"s", "u", "n">> }

NotBuilding == [target |-> 0, version |-> 0]
IdleQuery == [pc |-> "idle"]

PipelineIdle ==
    /\ snapshots = <<ChunksOf(0)>>
    /\ published = 1
    /\ building = NotBuilding
    /\ queries = [q \in 1..MaxQueries |-> IdleQuery]

\* re-ingestion that empties the published snapshot and builds into it
StartReingestInPlace ==
    /\ building = NotBuilding
    /\ Len(snapshots) < MaxSnapshots
    /\ snapshots' = [snapshots EXCEPT ![published] = <<>>] \o << <<>> >>
    /\ building' = [target |-> published,
                    version |-> snapshots[published][1].version + 1]
    /\ lastEvent' = "reingest"
    /\ UNCHANGED <<browser, indexDoc, loginDoc, sessions, published, queries, rendering>>

\* re-ingestion starts: a new, empty snapshot off to the side
StartReingest ==
    /\ building = NotBuilding
    /\ Len(snapshots) < MaxSnapshots
    /\ snapshots' = Append(snapshots, <<>>)
    /\ building' = [target |-> Len(snapshots) + 1,
                    version |-> snapshots[published][1].version + 1]
    /\ lastEvent' = "reingest"
    /\ UNCHANGED <<browser, indexDoc, loginDoc, sessions, published, queries, rendering>>

\* the chunker adds the next chunk to the snapshot being built
IngestChunk ==
    /\ building # NotBuilding
    /\ Len(snapshots[building.target]) < Len(ChunksOf(building.version))
    /\ snapshots' = [snapshots EXCEPT ![building.target] =
                        Append(@, ChunksOf(building.version)[Len(@) + 1])]
    /\ lastEvent' = "chunk"
    /\ UNCHANGED <<browser, indexDoc, loginDoc, sessions, published, building, queries,
                   rendering>>

\* the finished snapshot is published by replacing the reference
Publish ==
    /\ building # NotBuilding
    /\ Len(snapshots[building.target]) = Len(ChunksOf(building.version))
    /\ published' = building.target
    /\ building' = NotBuilding
    /\ lastEvent' = "publish"
    /\ UNCHANGED <<browser, indexDoc, loginDoc, sessions, snapshots, queries, rendering>>

\* an ask call starts: it takes the published reference
QueryBegin(q, question) ==
    /\ queries[q].pc = "idle"
    /\ queries' = [queries EXCEPT ![q] =
                      [pc |-> "reading", question |-> question, snapshot |-> published,
                       seen |-> <<>>]]
    /\ lastEvent' = "ask"
    /\ UNCHANGED <<browser, indexDoc, loginDoc, sessions, snapshots, published, building,
                   rendering>>

\* the call reads the next chunk of the snapshot it took
QueryRead(q) ==
    /\ queries[q].pc = "reading"
    /\ Len(queries[q].seen) < Len(snapshots[queries[q].snapshot])
    /\ queries' = [queries EXCEPT ![q].seen =
                      Append(@, snapshots[queries[q].snapshot][Len(@) + 1])]
    /\ lastEvent' = "read"
    /\ UNCHANGED <<browser, indexDoc, loginDoc, sessions, snapshots, published, building,
                   rendering>>

\* the call has read every chunk and returns its Answer
QueryEnd(q) ==
    /\ queries[q].pc = "reading"
    /\ Len(queries[q].seen) = Len(snapshots[queries[q].snapshot])
    /\ queries' = [queries EXCEPT ![q] =
                      [pc |-> "done", question |-> @.question, snapshot |-> @.snapshot,
                       seen |-> @.seen, answer |-> Ask(@.question, @.seen)]]
    /\ lastEvent' = "answer"
    /\ UNCHANGED <<browser, indexDoc, loginDoc, sessions, snapshots, published, building,
                   rendering>>

(***************************************************************************)
(* One call of a rendering function of script.js.                          *)
(***************************************************************************)
NoCall == [fn |-> "none"]
NoReturn == [returned |-> FALSE]
Returned(value) == [returned |-> TRUE, value |-> value]

\* every sequence over S of length 1 to n
SeqsUpTo(S, n) == UNION {[1..k -> S] : k \in 1..n}

SourceTexts == { <<>>, <<"a">>, <<"<", "b">> }
SourceDocuments == { Undefined, <<>>, <<"Cards">> }
SourceTypes == { Undefined, <<"requirement">> }

SourceShapes ==
    {StringSource(text) : text \in SourceTexts}
    \cup {ObjectSource(text, document, type) :
             text \in SourceTexts \cup {Undefined},
             document \in SourceDocuments, type \in SourceTypes}

ConfidenceLabels == {"high", "medium", "low", "HIGH", "", "undefined"}
ConfidenceValues == {0, 37, 75, 100}

FormatCalls == {[fn |-> "formatAnswer", answer |-> a] : a \in StringsUpTo(AnswerChars, MaxLen)}
SourcesCalls ==
    {[fn |-> "createSourcesHtml", sources |-> ss] : ss \in SeqsUpTo(SourceShapes, MaxSources)}
BadgeCalls ==
    {[fn |-> "createConfidenceBadge", confidence |-> c, label |-> l] :
        c \in ConfidenceValues, l \in ConfidenceLabels}

\* addAssistantMessage on an empty chat: sources missing, empty, or some sources
AssistantCalls ==
    {[fn |-> "addAssistantMessage", answer |-> a, confidence |-> 75, label |-> "high",
      sources |-> ss] :
        a \in {<<"x">>, <<"-", " ", "x">>},
        ss \in {NoSources, <<>>} \cup SeqsUpTo(SourceShapes, MaxSources)}

RenderingIdle == call = NoCall /\ ret = NoReturn

CallFormatAnswer ==
    /\ call.fn = "formatAnswer" /\ ret = NoReturn
    /\ ret' = Returned(formatAnswer(call.answer))
    /\ lastEvent' = "formatAnswer"
    /\ UNCHANGED <<browser, indexDoc, loginDoc, sessions, pipeline, call>>

CallCreateSourcesHtml ==
    /\ call.fn = "createSourcesHtml" /\ ret = NoReturn
    /\ ret' = Returned(createSourcesHtml(call.sources))
    /\ lastEvent' = "createSourcesHtml"
    /\ UNCHANGED <<browser, indexDoc, loginDoc, sessions, pipeline, call>>

CallCreateConfidenceBadge ==
    /\ call.fn = "createConfidenceBadge" /\ ret = NoReturn
    /\ ret' = Returned(createConfidenceBadge(call.confidence, call.label))
    /\ lastEvent' = "createConfidenceBadge"
    /\ UNCHANGED <<browser, indexDoc, loginDoc, sessions, pipeline, call>>

CallAddAssistantMessage ==
    /\ call.fn = "addAssistantMessage" /\ ret = NoReturn
    /\ ret' = Returned(addAssistantMessage(<<>>, call.answer, call.confidence, call.label,
                                           call.sources))
    /\ lastEvent' = "addAssistantMessage"
    /\ UNCHANGED <<browser, indexDoc, loginDoc, sessions, pipeline, call>>

(***************************************************************************)
(* Specifications.                                                         *)
(***************************************************************************)
BrowserClosed ==
    /\ localStorage = ClearedStorage
    /\ page = LOGIN /\ location = Null /\ loaded = FALSE
    /\ IndexDocFresh /\ LoginDocFresh
    /\ sessions = {}

\* the browser opens one of the two pages, with or without a session stored by
\* an earlier visit, which the server may or may not still accept
Init ==
    /\ localStorage \in {ClearedStorage,
                         StoredSession([session_token |-> "t1", user |-> AccountUser])}
    /\ page \in {INDEX, LOGIN}
    /\ location = Null
    /\ loaded = FALSE
    /\ IndexDocFresh
    /\ LoginDocFresh
    /\ sessions \in {{}, {"t1"}}
    /\ PipelineIdle
    /\ RenderingIdle
    /\ lastEvent = "open"

Next ==
    \/ IndexContentLoaded
    \/ \E typed \in Questions : HandleSubmit(typed)
    \/ \E i \in DOMAIN asks : ServeAsk(i)
    \/ \E i \in DOMAIN asks : ServeAskFault(i)
    \/ \E i \in DOMAIN asks, wire \in Breakages : BreakAsk(i, wire)
    \/ \E i \in DOMAIN asks : SendQuestionFetched(i)
    \/ \E i \in DOMAIN asks : SendQuestionParsed(i)
    \/ \E m \in DOMAIN chatMessages : ToggleClick(m)
    \/ LoginContentLoaded
    \/ \E email \in Emails, password \in Passwords : HandleLogin(email, password)
    \/ \E i \in DOMAIN logins : ServeLogin(i)
    \/ \E i \in DOMAIN logins, wire \in Breakages : BreakLogin(i, wire)
    \/ \E i \in DOMAIN logins : HandleLoginFetched(i)
    \/ \E i \in DOMAIN logins : HandleLoginParsed(i)
    \/ RedirectTimerFires
    \/ Navigate
    \/ \E token \in Tokens : Expire(token)

Spec == Init /\ [][Next]_vars

\* a request that was sent is answered, and the continuation of an await runs
\* once its promise has settled
AskProgress ==
    \E i \in DOMAIN asks : ServeAsk(i) \/ SendQuestionFetched(i) \/ SendQuestionParsed(i)

\* ENABLED <<AskProgress>>_vars: the page is live and one of its calls of
\* sendQuestion has not reached its end
AskProgressEnabled == OnIndex /\ \E i \in DOMAIN asks : asks[i].pc # "done"

\* the chat page under WF_vars(AskProgress), the fairness condition written out
\* with its enabling condition
SpecFair == Spec /\ ([]<>(~AskProgressEnabled) \/ []<><<AskProgress>>_vars)

\* the rendering functions, each applied once to arguments from bounded sets
InitRender ==
    /\ BrowserClosed
    /\ PipelineIdle
    /\ call \in FormatCalls \cup SourcesCalls \cup BadgeCalls \cup AssistantCalls
    /\ ret = NoReturn
    /\ lastEvent = "open"

NextRender ==
    \/ CallFormatAnswer
    \/ CallCreateSourcesHtml
    \/ CallCreateConfidenceBadge
    \/ CallAddAssistantMessage

SpecRender == InitRender /\ [][NextRender]_vars

\* the pipeline: re-ingestion beside ask calls
InitIngest ==
    /\ BrowserClosed
    /\ PipelineIdle
    /\ RenderingIdle
    /\ lastEvent = "open"

NextIngest ==
    \/ StartReingest
    \/ IngestChunk
    \/ Publish
    \/ \E q \in 1..MaxQueries, question \in QueryQuestions : QueryBegin(q, question)
    \/ \E q \in 1..MaxQueries : QueryRead(q)
    \/ \E q \in 1..MaxQueries : QueryEnd(q)

SpecIngest == InitIngest /\ [][NextIngest]_vars

(***************************************************************************)
(* Properties of the rendering functions (SpecRender).                     *)
(***************************************************************************)
\* s starts with one or more digits followed by a period
OrdinalMarked(s) ==
    \E k \in 1..(Len(s) - 1) : (\A j \in 1..k : s[j] \in Digits) /\ s[k + 1] = "."

\* s starts with a bullet character
BulletMarked(s) == Len(s) >= 1 /\ s[1] \in {BULLET, "-", "*"}

\* the lines of an answer that are not blank, leading and trailing blanks cut
MarkedLines(answer) ==
    LET all == Split(answer, LF)
    IN  {Trim(all[i]) : i \in 1..Len(all)} \ {<<>>}

NonBlankCount(answer) ==
    LET all == Split(answer, LF)
    IN  Cardinality({i \in 1..Len(all) : Trim(all[i]) # <<>>})

\* C5: formatAnswer picks the shape by three rules in priority order: an ordered
\* list when some non-blank line starts with digits and a period, else an
\* unordered list when some non-blank line starts with a bullet character, else
\* paragraphs; and then every line that starts with either marker is a list item
\* (a list holds one <li> for each non-blank line).
C5_FormatPriority ==
    (call.fn = "formatAnswer" /\ ret.returned) =>
        LET lines   == MarkedLines(call.answer)
            ordinal == \E l \in lines : OrdinalMarked(l)
            bullet  == \E l \in lines : BulletMarked(l)
            html    == ret.value
        IN  /\ ordinal => html.wrap = "ol"
            /\ (~ordinal /\ bullet) => html.wrap = "ul"
            /\ (~ordinal /\ ~bullet) => (html.wrap = "none" /\ html.child = "p")
            /\ (ordinal \/ bullet) =>
                   (html.child = "li" /\ Len(html.items) = NonBlankCount(call.answer))

\* a bullet line followed by a numbered line came out as an ordered list of two items
C5_Witness ==
    /\ call.fn = "formatAnswer" /\ ret.returned
    /\ call.answer = <<"-", LF, "1", ".">>
    /\ ret.value.wrap = "ol"
    /\ Len(ret.value.items) = 2

RECURSIVE Unescape(_)
\* the text an escaped string stands for
Unescape(s) ==
    IF s = <<>> THEN <<>>
    ELSE IF Len(s) >= 4 /\ SubSeq(s, 1, 4) = <<"&", "l", "t", ";">>
    THEN <<"<">> \o Unescape(SubSeq(s, 5, Len(s)))
    ELSE IF Len(s) >= 4 /\ SubSeq(s, 1, 4) = <<"&", "g", "t", ";">>
    THEN <<">">> \o Unescape(SubSeq(s, 5, Len(s)))
    ELSE IF Len(s) >= 5 /\ SubSeq(s, 1, 5) = <<"&", "a", "m", "p", ";">>
    THEN <<"&">> \o Unescape(SubSeq(s, 6, Len(s)))
    ELSE <<Head(s)>> \o Unescape(Tail(s))

\* the text a source carries: the string itself, or the text of the object
GivenText(source) ==
    IF source.text = Undefined THEN <<>> ELSE source.text

\* the document name a source carries, if it has one
HasDocument(source) ==
    source.t = "object" /\ source.document # Undefined /\ source.document # <<>>

\* C6: createSourcesHtml takes both source shapes and renders exactly one entry for
\* each source, in the order received, labelled Chunk 1..n, each with the text of
\* the source and a document name, which is 'Unknown document' when the source
\* has none.
C6_OneEntryPerSource ==
    (call.fn = "createSourcesHtml" /\ ret.returned) =>
        LET chunks == ret.value.chunks
        IN  /\ Len(chunks) = Len(call.sources)
            /\ \A i \in 1..Len(call.sources) :
                  /\ chunks[i].label = i
                  /\ Unescape(chunks[i].text) = GivenText(call.sources[i])
                  /\ chunks[i].document =
                        IF HasDocument(call.sources[i])
                        THEN call.sources[i].document ELSE UnknownDocument

\* a string source and an object source with a document name, rendered in order
C6_Witness ==
    /\ call.fn = "createSourcesHtml" /\ ret.returned
    /\ call.sources = <<StringSource(<<"<", "b">>),
                        ObjectSource(<<"a">>, <<"Cards">>, Undefined)>>
    /\ ret.value.chunks[1].document = UnknownDocument
    /\ ret.value.chunks[2].document = <<"Cards">>
    /\ ret.value.chunks[2].label = 2

\* the style of a badge: its class and its icon
StyleOf(badge) == <<badge.colorClass, badge.icon>>

\* C8: createConfidenceBadge maps the label to a style as a total function: 'high',
\* 'medium' and 'low' select the high, medium and low class and icon, three
\* distinct styles, and every other label selects the low style.
C8_BadgeStyle ==
    /\ (call.fn = "createConfidenceBadge" /\ ret.returned) =>
          StyleOf(ret.value) =
              CASE call.label = "high"   -> <<"confidence-high", CHECK_MARK>>
                [] call.label = "medium" -> <<"confidence-medium", "~">>
                [] OTHER                 -> <<"confidence-low", "!">>
    /\ Cardinality({StyleOf(createConfidenceBadge(0, l)) : l \in {"high", "medium", "low"}}) = 3

\* a label that is none of the three came out in the low style
C8_Witness ==
    /\ call.fn = "createConfidenceBadge" /\ ret.returned
    /\ call.label = "HIGH"
    /\ ret.value.colorClass = "confidence-low"

\* C14: addAssistantMessage creates the source disclosure and attaches the click
\* listener of its toggle exactly when sources is a non-empty sequence; when
\* sources is missing or empty the message holds the formatted answer and the
\* confidence badge only, and no toggle is looked up.
C14_DisclosureIffSources ==
    (call.fn = "addAssistantMessage" /\ ret.returned) =>
        LET message  == ret.value[Len(ret.value)]
            nonEmpty == call.sources \in SeqsUpTo(SourceShapes, MaxSources)
        IN  /\ Len(ret.value) = 1
            /\ message.kind = "assistant"
            /\ message.text = formatAnswer(call.answer)
            /\ message.badge = createConfidenceBadge(call.confidence, call.label)
            /\ nonEmpty <=> message.disclosure # <<>>
            /\ nonEmpty <=> message.listener
            /\ nonEmpty =>
                  /\ Len(message.disclosure) = 1
                  /\ Len(message.disclosure[1].chunks) = Len(call.sources)
                  /\ ~message.disclosure[1].visible

\* a response without sources was rendered: no disclosure and no listener
C14_Witness ==
    /\ call.fn = "addAssistantMessage" /\ ret.returned
    /\ call.sources = NoSources
    /\ ret.value[1].disclosure = <<>>
    /\ ~ret.value[1].listener

\* the element of S with k - 1 smaller elements
Nth(S, k) == CHOOSE i \in S : Cardinality({j \in S : j < i}) = k - 1

\* s is a list marker, digits and a period or one bullet character, and then
\* blanks only
MarkerThenBlanks(s) ==
    \E m \in 1..Len(s) :
        /\ \/ m = 1 /\ s[1] \in Bullets
           \/ m >= 2 /\ s[m] = "." /\ \A k \in 1..(m - 1) : s[k] \in Digits
        /\ \A k \in (m + 1)..Len(s) : s[k] \in WhiteSpace

\* the text of an element is the text of the line: all of it in a paragraph; in
\* a list item the line less the blanks around it and less a marker at its start
CarriesLine(child, text, line) ==
    IF child = "p" THEN text = line
    ELSE /\ text # <<>> => (text[1] \notin WhiteSpace /\ text[Len(text)] \notin WhiteSpace)
         /\ \E before \in 0..Len(line) :
               LET cut == SubSeq(line, 1, before)
               IN  /\ before + Len(text) <= Len(line)
                   /\ SubSeq(line, before + 1, before + Len(text)) = text
                   /\ (\A k \in 1..before : cut[k] \in WhiteSpace) \/ MarkerThenBlanks(cut)
                   /\ \A k \in (before + Len(text) + 1)..Len(line) : line[k] \in WhiteSpace

\* C18: formatAnswer neither drops nor duplicates a line: it emits exactly one
\* element for each non-blank line of the answer, the k-th element holding the
\* text of the k-th non-blank line, and no element for a blank line.
C18_OneElementPerLine ==
    (call.fn = "formatAnswer" /\ ret.returned) =>
        LET all      == Split(call.answer, LF)
            nonBlank == {i \in 1..Len(all) : \E k \in 1..Len(all[i]) : all[i][k] \notin WhiteSpace}
            html     == ret.value
        IN  /\ Len(html.items) = Cardinality(nonBlank)
            /\ html.child = (IF html.wrap = "none" THEN "p" ELSE "li")
            /\ \A k \in 1..Len(html.items) :
                  CarriesLine(html.child, Unescape(html.items[k]), all[Nth(nonBlank, k)])

\* two lines with a blank line between them came out as two paragraphs, in order
C18_Witness ==
    /\ call.fn = "formatAnswer" /\ ret.returned
    /\ call.answer = <<"x", LF, LF, "<">>
    /\ ret.value.wrap = "none"
    /\ ret.value.items = << <<"x">>, <<"&", "l", "t", ";">> >>

(***************************************************************************)
(* Properties of the chat page and the login page (Spec).                  *)
(***************************************************************************)
\* the /ask call at position i was answered with HTTP 401 and has been handled
Handled401(i) ==
    /\ asks[i].pc = "done"
    /\ asks[i].wire.st = "response"
    /\ asks[i].wire.status = 401

\* C1: when /ask is answered with HTTP 401 the client clears the stored token,
\* user name and user role and redirects to the login page, and the chat gets
\* neither an assistant answer nor an error message for that question: the
\* question stays the last message.
C1_UnauthorizedClearsSession ==
    \A i \in DOMAIN asks :
        Handled401(i) =>
            /\ \A k \in StorageKeys : localStorage[k] = Null
            /\ location = LOGIN
            /\ asks[i].outcome = "redirect"
            /\ Len(chatMessages) = 2 * i - 1
            /\ chatMessages[Len(chatMessages)] =
                   [kind |-> "user", text |-> escapeHtml(asks[i].question)]

\* a second question, after one that was answered, got 401 with a session stored
C1_Witness ==
    /\ Len(asks) = 2
    /\ Handled401(2)
    /\ asks[2].authorization.credentials = "t1"
    /\ chatMessages[2].kind = "assistant"

\* C2: every request of sendQuestion carries a Bearer header with a session token
\* that is not null, and a chat page whose checkAuthentication found no token
\* redirects to the login page and sends no question.
C2_TokenRequired ==
    /\ \A i \in DOMAIN asks :
          /\ asks[i].authorization.scheme = "Bearer"
          /\ asks[i].authorization.credentials # "null"
    /\ (OnIndex /\ Falsy(sessionToken)) => (location = LOGIN /\ asks = <<>>)

\* C3: handleSubmit rejects an empty or whitespace-only question before anything
\* else happens: no request is sent, no message is appended, the loading
\* indicator stays hidden and the input and the send button stay enabled.
C3_BlankRejected ==
    [][ \A typed \in Questions :
           (Trim(typed) = <<>> /\ HandleSubmit(typed)) =>
               /\ asks' = asks
               /\ chatMessages' = chatMessages
               /\ ~loadingIndicator.visible /\ ~loadingIndicator'.visible
               /\ ~questionInput.disabled /\ ~questionInput'.disabled
               /\ ~sendButton.disabled /\ ~sendButton'.disabled ]_vars

\* a whitespace-only question was submitted after an answered one
C3_Witness ==
    /\ lastEvent = "handleSubmit:blank"
    /\ questionInput.value = <<" ">>
    /\ Len(chatMessages) = 2
    /\ Len(asks) = 1

\* the /login call at position i ends in this step
LoginEnds(i) ==
    /\ i \in DOMAIN logins /\ i \in DOMAIN logins'
    /\ logins[i].pc # "done" /\ logins'[i].pc = "done"

\* the response of the /login call at position i is OK with success = true
LoginGranted(i) ==
    /\ logins[i].wire.st = "response"
    /\ logins[i].wire.ok
    /\ logins[i].wire.body.parsable
    /\ logins[i].wire.body.data.success

FormEnabled ==
    ~emailInput.disabled /\ ~passwordInput.disabled /\ ~loginButton.disabled

\* C4: on the login page storage is written only when a /login response is OK with
\* success = true, and then with its token, user name and role; when a call ends
\* on a failure response or a network or parse error nothing is written, an error
\* message is shown and the form is enabled again.
C4_StoreOnlyOnSuccess ==
    [][ OnLogin =>
          /\ localStorage' # localStorage =>
                \E i \in DOMAIN logins :
                    /\ LoginEnds(i) /\ LoginGranted(i)
                    /\ localStorage'[TOKEN_KEY] = logins[i].wire.body.data.session_token
                    /\ localStorage'[NAME_KEY] = logins[i].wire.body.data.user.name
                    /\ localStorage'[ROLE_KEY] = logins[i].wire.body.data.user.role
          /\ \A i \in DOMAIN logins :
                (LoginEnds(i) /\ ~LoginGranted(i)) =>
                    /\ localStorage' = localStorage
                    /\ errorMessage'.visible /\ errorMessage'.style = "error"
                    /\ FormEnabled' ]_vars

\* a login that failed and left storage empty, then one that succeeded and stored
\* the session
C4_Witness ==
    /\ OnLogin /\ Len(logins) = 2
    /\ logins[1].outcome = "failure"
    /\ logins[2].outcome = "success"
    /\ localStorage = StoredSession([session_token |-> "t1", user |-> AccountUser])
    /\ ~FormEnabled

\* the chat messages that have a source disclosure
Disclosures == {m \in DOMAIN chatMessages :
                   chatMessages[m].kind = "assistant" /\ chatMessages[m].disclosure # <<>>}

\* the content is visible exactly after an odd number of clicks, and the arrow
\* points down exactly when the content is visible
DisclosureParity ==
    \A m \in Disclosures :
        LET d == chatMessages[m].disclosure[1]
        IN  /\ d.visible <=> (chatMessages[m].clicks % 2 = 1)
            /\ d.toggle.arrow = (IF d.visible THEN ARROW_DOWN ELSE ARROW_RIGHT)

\* a click on one toggle leaves every other message as it was
ClickIsLocal ==
    \A m \in DOMAIN chatMessages :
        ToggleClick(m) =>
            \A n \in DOMAIN chatMessages \ {m} : chatMessages'[n] = chatMessages[n]

\* C7: the source disclosure of an assistant message starts hidden with the arrow
\* pointing right; after any clicks on its toggle the content is visible exactly
\* when the number of clicks is odd and the arrow points down exactly when the
\* content is visible; a click on one toggle changes no other message.
C7_ToggleParity == []DisclosureParity /\ [][ClickIsLocal]_vars

\* two disclosures, one clicked twice and hidden again, one clicked once and shown
C7_Witness ==
    /\ Disclosures = {2, 4}
    /\ chatMessages[2].clicks = 2 /\ ~chatMessages[2].disclosure[1].visible
    /\ chatMessages[4].clicks = 1 /\ chatMessages[4].disclosure[1].visible

\* the question shares no token with any chunk of the published snapshot
NoOverlap(question) ==
    \A c \in DOMAIN snapshots[published] :
        Tokenize(question) \cap Tokenize(snapshots[published][c].text) = {}

\* the body of the response to the /ask call at position i is a parsed Answer
Answered(i) ==
    /\ asks[i].wire.st = "response"
    /\ asks[i].wire.status = 200
    /\ asks[i].wire.body.parsable

\* C9: for a question that shares no token with any chunk, retrieve returns the
\* empty sequence and the Answer is a successful one with confidence 0, label low
\* and no sources; the client shows it as an ordinary assistant message, not as an
\* error.
C9_NoRelevantInformation ==
    \A i \in DOMAIN asks :
        NoOverlap(asks[i].question) =>
            /\ Retrieve(asks[i].question, snapshots[published], TopK) = <<>>
            /\ Answered(i) =>
                  LET data == asks[i].wire.body.data
                  IN  /\ data.confidence = 0
                      /\ data.confidence_label = "low"
                      /\ data.sources = <<>>
            /\ (Answered(i) /\ asks[i].pc = "done") =>
                  /\ asks[i].outcome = "answer"
                  /\ chatMessages[2 * i].kind = "assistant"
                  /\ chatMessages[2 * i].badge.colorClass = "confidence-low"
                  /\ chatMessages[2 * i].disclosure = <<>>

\* a question with no token in common was answered and shown
C9_Witness ==
    \E i \in DOMAIN asks :
        /\ NoOverlap(asks[i].question)
        /\ Answered(i) /\ asks[i].pc = "done"
        /\ chatMessages[2 * i].kind = "assistant"

\* the /ask call at position i has not been handled to its end
AskPending(i) == i \in DOMAIN asks /\ asks[i].pc # "done"

\* the /ask call at position i has been handled to its end, or the page that
\* made it has been replaced
AskSettled(i) == i \notin DOMAIN asks \/ asks[i].pc = "done"

\* the chat holds the question of every request, then what became of it: nothing
\* yet while it is pending, nothing after a 401, else one answer or one error
OneOutcomeEach ==
    /\ Len(chatMessages) <= 2 * Len(asks)
    /\ \A i \in DOMAIN asks :
          /\ Len(chatMessages) >= 2 * i - 1
          /\ chatMessages[2 * i - 1] = [kind |-> "user", text |-> escapeHtml(asks[i].question)]
          /\ asks[i].pc # "done" => (asks[i].outcome = "none" /\ Len(chatMessages) = 2 * i - 1)
          /\ asks[i].pc = "done" =>
                /\ asks[i].outcome \in {"answer", "error", "redirect"}
                /\ asks[i].outcome = "redirect" <=> Handled401(i)
                /\ asks[i].outcome = "redirect" =>
                       (Len(chatMessages) = 2 * i - 1 /\ location = LOGIN)
                /\ asks[i].outcome = "answer" =>
                       (Len(chatMessages) >= 2 * i /\ chatMessages[2 * i].kind = "assistant")
                /\ asks[i].outcome = "error" =>
                       (Len(chatMessages) >= 2 * i /\ chatMessages[2 * i].kind = "error")
    \* a page with a request pending is left for the login page only
    /\ (\E i \in DOMAIN asks : AskPending(i)) => location \in {Null, LOGIN}

\* a request is made by the submit of a non-blank question only, is answered
\* once and ends once; when it ends in an answer or an error the loading
\* indicator is hidden and the input and the send button are enabled
OneRequestEach ==
    /\ Len(asks') > Len(asks) =>
          /\ Len(asks') = Len(asks) + 1
          /\ \E typed \in Questions : Trim(typed) # <<>> /\ HandleSubmit(typed)
    /\ \A i \in DOMAIN asks \cap DOMAIN asks' :
          /\ asks'[i].question = asks[i].question
          /\ asks'[i].authorization = asks[i].authorization
          /\ asks[i].wire # Request => asks'[i].wire = asks[i].wire
          /\ asks[i].pc = "done" => asks'[i] = asks[i]
          /\ (asks[i].pc # "done" /\ asks'[i].pc = "done"
                  /\ asks'[i].outcome \in {"answer", "error"}) =>
                /\ ~loadingIndicator'.visible
                /\ ~questionInput'.disabled
                /\ ~sendButton'.disabled

\* C11: each submitted non-blank question makes exactly one /ask request, which
\* is never sent again, and eventually reaches exactly one outcome: an assistant
\* answer is appended, or an error message is appended, or on 401 the page goes
\* to the login page; with an answer or an error the loading indicator is hidden
\* and the input and the send button are enabled again.  (A page left for
\* login.html before the response arrived has reached the third outcome.)
C11_OneRequestOneOutcome ==
    /\ []OneOutcomeEach
    /\ [][OneRequestEach]_vars
    /\ \A i \in 1..MaxQuestions : AskPending(i) ~> AskSettled(i)

\* a first question was answered and a second one ended in the error message
C11_Witness ==
    /\ Len(asks) = 2
    /\ asks[1].outcome = "answer" /\ asks[2].outcome = "error"
    /\ Len(chatMessages) = 4
    /\ ~questionInput.disabled /\ ~loadingIndicator.visible

\* the /ask calls that have not been handled to their end
PendingAsks == {i \in DOMAIN asks : AskPending(i)}

\* a call of sendQuestion on this page has ended in the redirect of a 401
Redirected401 == \E i \in DOMAIN asks : asks[i].outcome = "redirect"

\* C12: at most one /ask request is in flight at any time; while one is, the
\* question input and the send button are disabled and the loading indicator is
\* visible; and while none is, and no 401 has redirected the page, the input and
\* the button are enabled and the loading indicator is hidden.
C12_OneAskInFlight ==
    /\ Cardinality(PendingAsks) <= 1
    /\ PendingAsks # {} =>
          (questionInput.disabled /\ sendButton.disabled /\ loadingIndicator.visible)
    /\ (PendingAsks = {} /\ ~Redirected401) =>
          (~questionInput.disabled /\ ~sendButton.disabled /\ ~loadingIndicator.visible)

\* a second question is in flight, its response not yet handled, after a first
\* one was answered
C12_Witness ==
    /\ Len(asks) = 2
    /\ asks[1].outcome = "answer"
    /\ asks[2].pc = "json"
    /\ questionInput.disabled /\ loadingIndicator.visible

\* the /ask call at position i reaches its end in this step
AskEnds(i) ==
    /\ i \in DOMAIN asks /\ i \in DOMAIN asks'
    /\ asks[i].pc # "done" /\ asks'[i].pc = "done"

\* the /ask call at position i failed other than by a 401: the network failed,
\* or the status is not OK and not 401, or the body of an OK response is no JSON
AskFailedOther(i) ==
    \/ asks[i].wire.st = "failed"
    \/ /\ asks[i].wire.st = "response"
       /\ \/ ~asks[i].wire.ok /\ asks[i].wire.status # 401
          \/ asks[i].wire.ok /\ ~asks[i].wire.body.parsable

\* C13: when the /ask request fails with a status that is not OK and not 401, or
\* with a network error, or with a body that cannot be parsed, the client appends
\* the generic error message and nothing else, leaves the stored credentials as
\* they are, starts no navigation away from the chat page, hides the loading
\* indicator and enables the input and the send button again.
C13_FailureShowsGenericError ==
    [][ \A i \in DOMAIN asks :
           (AskEnds(i) /\ AskFailedOther(i)) =>
               /\ chatMessages' =
                      Append(chatMessages,
                             [kind |-> "error",
                              text |-> <<"Sorry, I encountered an error. Please make sure the backend server is running.">>])
               /\ asks'[i].outcome = "error"
               /\ localStorage' = localStorage
               /\ page' = INDEX /\ location' = location
               /\ ~loadingIndicator'.visible
               /\ ~questionInput'.disabled /\ ~sendButton'.disabled ]_vars

\* with a session stored, one question ended on a 500 and the next on a body
\* that is no JSON: two error messages, the session still stored, no navigation
C13_Witness ==
    /\ Len(asks) = 2
    /\ asks[1].pc = "done" /\ asks[1].wire = Response(500, ServerFailure)
    /\ asks[2].pc = "done" /\ asks[2].wire = Response(200, GarbledBody)
    /\ chatMessages[2].kind = "error" /\ chatMessages[4].kind = "error"
    /\ localStorage[TOKEN_KEY] = "t1"
    /\ location = Null

\* a session token is stored
TokenStored == localStorage[TOKEN_KEY] # Null /\ localStorage[TOKEN_KEY] # ""

\* a navigation that has been started leads to the other page, and to the page
\* that storage calls for: to login.html without a token, to index.html with one
NoBounce ==
    /\ (page = INDEX /\ location # Null) => (location = LOGIN /\ ~TokenStored)
    /\ (page = LOGIN /\ location # Null) => (location = INDEX /\ TokenStored)

\* the steps that start, commit or follow a navigation
RedirectsFollowStorage ==
    \* the chat page starts a navigation only to the login page, with no token stored
    /\ (page = INDEX /\ location' # location /\ location' # Null) =>
          (location' = LOGIN /\ ~TokenStored')
    \* the login page starts a navigation only to the chat page, with a token stored
    /\ (page = LOGIN /\ location' # location /\ location' # Null) =>
          (location' = INDEX /\ TokenStored')
    \* a 401 clears storage in the step that starts the navigation
    /\ \A i \in DOMAIN asks :
          (AskEnds(i) /\ asks[i].wire.st = "response" /\ asks[i].wire.status = 401) =>
              (localStorage' = ClearedStorage /\ location' = LOGIN)
    \* DOMContentLoaded redirects exactly when storage calls for the other page
    /\ (~loaded /\ loaded') =>
          /\ localStorage' = localStorage
          /\ location' # Null <=> (page = INDEX <=> ~TokenStored)
    \* the page a navigation has just landed on does not redirect on its load
    /\ (lastEvent = "navigate" /\ ~loaded /\ loaded') => location' = Null
    \* on the login page a token appears in storage only when a login succeeds
    /\ (page = LOGIN /\ ~TokenStored /\ TokenStored') =>
          \E i \in DOMAIN logins : LoginEnds(i) /\ LoginGranted(i)
    \* the login page is left only with a token stored
    /\ (page = LOGIN /\ page' # LOGIN) => TokenStored

\* C15: redirects between the chat page and the login page never loop: the chat
\* page redirects to the login page only when no session token is stored, the
\* login page redirects to the chat page only when one is stored, a 401 clears
\* storage in the step that redirects, the page a redirect lands on stays, and
\* the login page is left only after a login has stored a token.
C15_RedirectsNeverLoop == []NoBounce /\ [][RedirectsFollowStorage]_vars

\* a question sent with a stored session got 401: storage is cleared and the
\* navigation to the login page has been started
C15_Witness ==
    /\ page = INDEX /\ location = LOGIN
    /\ Len(asks) = 1 /\ Handled401(1)
    /\ asks[1].authorization.credentials = "t1"
    /\ ~TokenStored

\* the /login calls that have not been handled to their end
PendingLogins == {i \in DOMAIN logins : logins[i].pc # "done"}

\* a login of this page has succeeded
LoggedIn == \E i \in DOMAIN logins : logins[i].outcome = "success"

FormDisabled ==
    emailInput.disabled /\ passwordInput.disabled /\ loginButton.disabled

\* C16: at most one /login request is in flight at any time; the email field,
\* the password field and the button are disabled while one is, are enabled
\* again once it has ended in a failure response or a network or parse error,
\* and after a success stay disabled for as long as the login page is shown.
C16_OneLoginInFlight ==
    /\ Cardinality(PendingLogins) <= 1
    /\ PendingLogins # {} => FormDisabled
    /\ LoggedIn => FormDisabled
    /\ (PendingLogins = {} /\ ~LoggedIn) => FormEnabled
    /\ \A i \in DOMAIN logins :
          logins[i].outcome \in {"failure", "error"} =>
              (i < Len(logins) \/ FormEnabled)

\* after a login that met a network error, a second one succeeded and its timer
\* started the navigation to the chat page: the form is still disabled
C16_Witness ==
    /\ page = LOGIN /\ location = INDEX
    /\ Len(logins) = 2
    /\ logins[1].outcome = "error"
    /\ logins[2].outcome = "success"
    /\ FormDisabled

\* every /login request carries an email that is not empty once trimmed and a
\* password that is not empty
LoginsAreFilled ==
    \A i \in DOMAIN logins :
        /\ logins[i].email # <<>>
        /\ logins[i].email[1] \notin WhiteSpace
        /\ logins[i].password # <<>>

\* a submit with the email blank or the password empty shows the message, sends
\* nothing, and leaves the form enabled and storage as it was
IncompleteIsRejected ==
    \A typedEmail \in Emails, typedPassword \in Passwords :
        (/\ \A k \in 1..Len(typedEmail) : typedEmail[k] \in WhiteSpace
         /\ HandleLogin(typedEmail, typedPassword))
        \/ (typedPassword = <<>> /\ HandleLogin(typedEmail, typedPassword))
        => /\ errorMessage'.text = "Veuillez remplir tous les champs"
           /\ errorMessage'.visible /\ errorMessage'.style = "error"
           /\ logins' = logins
           /\ FormEnabled /\ FormEnabled'
           /\ localStorage' = localStorage
           /\ location' = location

\* C17: handleLogin sends a /login request only when the email is not blank and
\* the password is not empty; otherwise it shows the 'fill all fields' error,
\* sends no request, leaves the form enabled and leaves storage unchanged.
C17_IncompleteLoginRejected == []LoginsAreFilled /\ [][IncompleteIsRejected]_vars

\* a blank email with a password was submitted and rejected; before that a login
\* with a password of one space had been sent
C17_Witness ==
    /\ lastEvent = "handleLogin:incomplete"
    /\ emailInput.value = <<" ">> /\ passwordInput.value = <<"p">>
    /\ errorMessage.text = FillAllFields /\ errorMessage.visible
    /\ Len(logins) = 1 /\ logins[1].password = <<" ">>
    /\ FormEnabled

(***************************************************************************)
(* Properties of re-ingestion beside queries (SpecIngest).                 *)
(***************************************************************************)
\* xs is the beginning of ys
IsPrefix(xs, ys) == Len(xs) <= Len(ys) /\ xs = SubSeq(ys, 1, Len(xs))

\* what every running or finished query has read comes from one ingestion: it is
\* the beginning of that ingestion's chunks, and all of them once it has finished
OneSnapshotPerQuery ==
    \A q \in DOMAIN queries :
        queries[q].pc \in {"reading", "done"} =>
            \E version \in 0..MaxSnapshots :
                /\ IsPrefix(queries[q].seen, ChunksOf(version))
                /\ queries[q].pc = "done" => queries[q].seen = ChunksOf(version)

\* a snapshot that is published, or that a running query holds, is not changed
NoChangeInPlace ==
    \A id \in DOMAIN snapshots :
        (id = published \/ \E q \in DOMAIN queries :
                               queries[q].pc = "reading" /\ queries[q].snapshot = id)
            => snapshots'[id] = snapshots[id]

\* C10: re-ingestion beside any number of ask calls never shows a mixed snapshot:
\* each query reads one snapshot, entirely the old one or entirely the new one,
\* and the published snapshot is never changed in place.
C10_SnapshotIsolation == []OneSnapshotPerQuery /\ [][NoChangeInPlace]_vars

\* one query is half way through the old snapshot after the new one was
\* published, and another has finished on the new one
C10_Witness ==
    \E q, r \in DOMAIN queries :
        /\ queries[q].pc = "reading" /\ Len(queries[q].seen) = 1
        /\ queries[q].snapshot # published
        /\ queries[r].pc = "done" /\ queries[r].snapshot = published
        /\ queries[r].seen[1].version # queries[q].seen[1].version

====
